---- MODULE Spec2Model ----
(***************************************************************************)
(* A model of examples/fibonacci.py: the function fibonacci(n), executed   *)
(* one statement at a time in its own frame, and a caller that calls it    *)
(* repeatedly with integer arguments and records each call's outcome.      *)
(*                                                                         *)
(* Python integers are unbounded; the arguments are drawn from             *)
(* -MaxNeg .. MaxN, which keeps every value far below TLC's integer width. *)
(***************************************************************************)
EXTENDS Integers, Sequences, FiniteSets, TLC

VARIABLES
    pc,        \* the statement about to run: "idle" outside a call, "L<line>" inside,
               \* "returned" / "raised" once the call has ended
    arg,       \* the caller's argument of the current (or latest) call
    locals,    \* the frame of the call: a function from the bound local names to values
    iter,      \* the iterator of range(2, n + 1): <<>> before the for statement creates it
    ret,       \* the outcome of the call: <<>> while none has been produced
    iters,     \* how many times the loop body (line 20) ran in the current call
    history    \* the caller's record of the completed calls, oldest first

vars == <<pc, arg, locals, iter, ret, iters, history>>

\* ---------------------------------------------------------------- bounds
MaxN == 10
MaxNeg == 2
MaxCalls == 3

Args == (0 - MaxNeg) .. MaxN

\* ------------------------------------------------- the pieces of the code
\* line 11: the test of the guard
IsNegativeOffByOne(n) == n < 0 - 1
IsNegativeInclusive(n) == n <= 0
IsNegative(n) == n < 0

\* line 12: ValueError("n must be non-negative")
ValueError == [kind |-> "raise", exc |-> "ValueError", msg |-> "n must be non-negative"]

\* lines 14, 16, 21: return <v>
Return(v) == [kind |-> "return", value |-> v]

\* line 18: the right-hand side of  a, b = 0, 1
PairInitStale == IF history = <<>> THEN <<0, 1>> ELSE <<1, 1>>
PairInitOnes == <<1, 1>>
PairInit == <<0, 1>>

\* line 19: range(2, n + 1) starts at 2 and stops before n + 1
RangeStart == 2
RangeStopExclusive(n) == n
RangeStop(n) == n + 1

\* line 19: the name the for statement binds
LoopVarShadowsN == "n"
LoopVar == "_"

\* line 20: the right-hand side of  a, b = b, a + b, evaluated from the old values
StepSequential(a, b) == <<b, b + b>>
StepSubtract(a, b) == <<b, a - b>>
Step(a, b) == <<b, a + b>>

\* binding a local name in a frame
Store(frame, name, v) ==
    [x \in DOMAIN frame \cup {name} |-> IF x = name THEN v ELSE frame[x]]

\* the frame of a fresh call: only the parameter is bound
NewFrame(x) == [n |-> x]

InCall == pc \in {"L11", "L13", "L15", "L18", "L19", "L19next", "L20", "L21"}
Ended == pc \in {"returned", "raised"}

\* ------------------------------------------------------------------ Init
Init ==
    /\ pc = "idle"
    /\ arg = 0
    /\ locals = <<>>
    /\ iter = <<>>
    /\ ret = <<>>
    /\ iters = 0
    /\ history = <<>>

\* ---------------------------------------------------------------- actions
\* the caller calls fibonacci(x)
Call(x) ==
    /\ pc = "idle"
    /\ Len(history) < MaxCalls
    /\ arg' = x
    /\ locals' = NewFrame(x)
    /\ iter' = <<>>
    /\ ret' = <<>>
    /\ iters' = 0
    /\ pc' = "L11"
    /\ UNCHANGED history

\* lines 11-12: if n < 0: raise ValueError(...)
CheckNegative ==
    /\ pc = "L11"
    /\ IF IsNegative(locals.n)
         THEN pc' = "raised" /\ ret' = ValueError
         ELSE pc' = "L13" /\ UNCHANGED ret
    /\ UNCHANGED <<arg, locals, iter, iters, history>>

\* lines 13-14: elif n == 0: return 0
CheckZero ==
    /\ pc = "L13"
    /\ IF locals.n = 0
         THEN pc' = "returned" /\ ret' = Return(0)
         ELSE pc' = "L15" /\ UNCHANGED ret
    /\ UNCHANGED <<arg, locals, iter, iters, history>>

\* lines 15-16: elif n == 1: return 1
CheckOne ==
    /\ pc = "L15"
    /\ IF locals.n = 1
         THEN pc' = "returned" /\ ret' = Return(1)
         ELSE pc' = "L18" /\ UNCHANGED ret
    /\ UNCHANGED <<arg, locals, iter, iters, history>>

\* line 18: a, b = 0, 1
InitPair ==
    /\ pc = "L18"
    /\ locals' = Store(Store(locals, "a", PairInit[1]), "b", PairInit[2])
    /\ pc' = "L19"
    /\ UNCHANGED <<arg, iter, ret, iters, history>>

\* line 19: the for statement evaluates range(2, n + 1) once
EnterLoop ==
    /\ pc = "L19"
    /\ iter' = [cur |-> RangeStart, stop |-> RangeStop(locals.n)]
    /\ pc' = "L19next"
    /\ UNCHANGED <<arg, locals, ret, iters, history>>

\* line 19: the for statement takes the next index, or leaves the loop
NextIndex ==
    /\ pc = "L19next"
    /\ IF iter.cur < iter.stop
         THEN /\ locals' = Store(locals, LoopVar, iter.cur)
              /\ iter' = [iter EXCEPT !.cur = @ + 1]
              /\ pc' = "L20"
         ELSE /\ pc' = "L21"
              /\ UNCHANGED <<locals, iter>>
    /\ UNCHANGED <<arg, ret, iters, history>>

\* line 20: a, b = b, a + b
LoopBody ==
    /\ pc = "L20"
    /\ LET new == Step(locals.a, locals.b)
       IN  locals' = Store(Store(locals, "a", new[1]), "b", new[2])
    /\ iters' = iters + 1
    /\ pc' = "L19next"
    /\ UNCHANGED <<arg, iter, ret, history>>

\* line 21: return b
ReturnB ==
    /\ pc = "L21"
    /\ ret' = Return(locals.b)
    /\ pc' = "returned"
    /\ UNCHANGED <<arg, locals, iter, iters, history>>

\* the caller receives the outcome; the frame is gone
Finish ==
    /\ Ended
    /\ history' = Append(history, [n |-> arg, out |-> ret])
    /\ locals' = <<>>
    /\ iter' = <<>>
    /\ pc' = "idle"
    /\ UNCHANGED <<arg, ret, iters>>

\* one statement of fibonacci
Run ==
    \/ CheckNegative
    \/ CheckZero
    \/ CheckOne
    \/ InitPair
    \/ EnterLoop
    \/ NextIndex
    \/ LoopBody
    \/ ReturnB

Next ==
    \/ \E x \in Args : Call(x)
    \/ CheckNegative
    \/ CheckZero
    \/ CheckOne
    \/ InitPair
    \/ EnterLoop
    \/ NextIndex
    \/ LoopBody
    \/ ReturnB
    \/ Finish

Spec == Init /\ [][Next]_vars

\* the interpreter keeps executing a call that has a statement left to run
FairSpec == Spec /\ WF_vars(Run)

\* ------------------------------------------------ vocabulary of the claims
\* the Fibonacci sequence of the glossary: F(0) = 0, F(1) = 1, F(k) = F(k-1) + F(k-2)
RECURSIVE Fib(_)
Fib(k) == IF k = 0 THEN 0 ELSE IF k = 1 THEN 1 ELSE Fib(k - 1) + Fib(k - 2)

\* every call that has ended so far, as (argument, outcome)
Outcomes ==
    {history[k] : k \in 1 .. Len(history)}
        \cup (IF Ended THEN {[n |-> arg, out |-> ret]} ELSE {})

Returned(r) == r.out # <<>> /\ r.out.kind = "return"
Raised(r) == r.out # <<>> /\ r.out.kind = "raise"
PairBound == {"a", "b"} \subseteq DOMAIN locals

\* C1: for every n >= 0 a call fibonacci(n) returns the nth Fibonacci number:
\* 0 for n = 0, 1 for n = 1, and for n >= 2 the sum of what the calls with
\* n - 1 and n - 2 return.
C1_ReturnsNthFibonacci ==
    /\ \A r \in Outcomes :
         r.n >= 0 => Returned(r) /\ r.out.value = Fib(r.n)
    /\ \A r \in Outcomes :
         /\ r.n = 0 => Returned(r) /\ r.out.value = 0
         /\ r.n = 1 => Returned(r) /\ r.out.value = 1
    /\ \A r, s, t \in Outcomes :
         (r.n >= 2 /\ s.n = r.n - 1 /\ t.n = r.n - 2)
             => /\ Returned(r) /\ Returned(s) /\ Returned(t)
                /\ r.out.value = s.out.value + t.out.value

C1_Witness ==
    /\ Ended /\ arg = 7 /\ Returned([n |-> arg, out |-> ret]) /\ ret.value = 13
    /\ Len(history) = 2 /\ history[1].n = 6 /\ history[2].n = 5

\* C2: for every n < 0 the call ends by raising ValueError with the message
\* "n must be non-negative", and produces no numeric result.
C2_NegativeRaises ==
    /\ ((InCall \/ Ended) /\ arg < 0) =>
         /\ pc \in {"L11", "raised"}
         /\ pc = "L11" => ret = <<>>
    /\ \A r \in Outcomes :
         r.n < 0 =>
            /\ Raised(r)
            /\ r.out.exc = "ValueError"
            /\ r.out.msg = "n must be non-negative"
            /\ "value" \notin DOMAIN r.out

C2_Witness ==
    /\ pc = "raised" /\ arg = 0 - 1
    /\ ret.exc = "ValueError" /\ ret.msg = "n must be non-negative"

\* C3: the error is triggered solely by n < 0: a call with n >= 0 never
\* reaches an error outcome, and when it ends it has returned a value.
C3_OnlyNegativeRaises ==
    /\ pc = "raised" => arg < 0
    /\ ((InCall \/ Ended) /\ arg >= 0) => (ret = <<>> \/ ret.kind = "return")
    /\ \A r \in Outcomes :
         /\ Raised(r) => r.n < 0
         /\ r.n >= 0 => Returned(r) /\ r.out.value \in Nat

C3_Witness ==
    /\ pc = "returned" /\ arg = 0 /\ ret.kind = "return"
    /\ \E k \in 1 .. Len(history) : history[k].n < 0 /\ Raised(history[k])

\* C4: when n < 0 the error is raised before any computation: on the path
\* that ends in the error the pair (a, b) is never bound, no range iterator
\* is created and the loop body runs zero times.
C4_NoComputationBeforeError ==
    /\ ((InCall \/ Ended) /\ arg < 0) =>
         /\ DOMAIN locals = {"n"}
         /\ iter = <<>>
         /\ iters = 0
    /\ pc = "raised" =>
         /\ DOMAIN locals = {"n"}
         /\ iter = <<>>
         /\ iters = 0

C4_Witness ==
    /\ pc = "raised" /\ arg < 0 /\ ~PairBound /\ iters = 0
    /\ \E k \in 1 .. Len(history) : history[k].n >= 2

\* C5: fibonacci(0) returns 0, fibonacci(1) returns 1, fibonacci(2) returns 1,
\* fibonacci(5) returns 5 and fibonacci(10) returns 55.
C5_Scenarios ==
    \A r \in Outcomes :
        /\ r.n = 0 => r.out = [kind |-> "return", value |-> 0]
        /\ r.n = 1 => r.out = [kind |-> "return", value |-> 1]
        /\ r.n = 2 => r.out = [kind |-> "return", value |-> 1]
        /\ r.n = 5 => r.out = [kind |-> "return", value |-> 5]
        /\ r.n = 10 => r.out = [kind |-> "return", value |-> 55]

C5_Witness ==
    /\ pc = "returned" /\ arg = 10 /\ ret.value = 55
    /\ Len(history) = 2 /\ history[1].n = 2 /\ history[2].n = 5

\* C6: a call's outcome depends on n alone: whatever calls came before
\* (failed ones included), two calls with the same n have the same outcome.
C6_Deterministic ==
    \A r, s \in Outcomes : r.n = s.n => r.out = s.out

C6_Witness ==
    /\ pc = "returned" /\ arg = 6 /\ Len(history) = 2
    /\ history[1].n = arg /\ history[1].out = ret
    /\ history[2].n < 0 /\ Raised(history[2])

\* C7: a step of fibonacci writes only the locals a, b and the loop
\* counter: the caller's argument, the caller's record of earlier calls and
\* the parameter n are unchanged by it, also by the step that returns or raises.
C7_WritesOnlyItsLocals ==
    [][InCall =>
          /\ arg' = arg
          /\ history' = history
          /\ locals.n = arg
          /\ locals'.n = locals.n
          /\ DOMAIN locals' \subseteq {"n", "a", "b", "_"}
          /\ DOMAIN locals \subseteq DOMAIN locals'
      ]_vars

C7_Witness ==
    /\ pc = "returned" /\ arg = 4 /\ locals.n = arg /\ locals["_"] = 4
    /\ Len(history) = 1

\* C8: the loop invariant. The pair starts as (0, 1); after the iteration
\* for index i (2 <= i <= n) it is (F(i-1), F(i)); an iteration replaces
\* (a, b) by (b, a + b), both computed from the old values; at the exit of
\* the loop b = F(n), and that b is returned.
C8_PairInvariant ==
    /\ pc = "L19" => locals.a = 0 /\ locals.b = 1
    /\ pc \in {"L19", "L19next", "L20", "L21"} =>
         /\ locals.n >= 2
         /\ locals.a = Fib(iters)
         /\ locals.b = Fib(iters + 1)
    /\ (pc = "L19next" /\ iters >= 1) =>
         /\ locals["_"] = iters + 1
         /\ locals["_"] \in 2 .. locals.n
         /\ locals.a = Fib(locals["_"] - 1)
         /\ locals.b = Fib(locals["_"])
    /\ pc = "L21" => locals.b = Fib(locals.n)
    /\ (pc = "returned" /\ arg >= 2) =>
         /\ locals.b = Fib(arg)
         /\ ret = [kind |-> "return", value |-> locals.b]

C8_LoopInvariant ==
    /\ []C8_PairInvariant
    /\ [][pc = "L20" => /\ locals'.a = locals.b
                        /\ locals'.b = locals.a + locals.b]_vars

C8_Witness ==
    /\ pc = "L19next" /\ iters = 5 /\ locals["_"] = 6
    /\ locals.a = 5 /\ locals.b = 8

\* C9: every call terminates. For n >= 2 the loop body runs exactly n - 1
\* times, for the indices 2 .. n in order; for n = 0 and n = 1 it runs zero
\* times and no loop is entered.
C9_IterationCount ==
    /\ InCall => ENABLED Run
    /\ pc = "L20" => locals["_"] = iters + 2 /\ locals["_"] \in 2 .. locals.n
    /\ (InCall /\ arg >= 2) => iters <= arg - 1
    /\ (Ended /\ arg >= 2) => iters = arg - 1
    /\ (Ended /\ arg < 2) => iters = 0 /\ iter = <<>>

C9_Terminates ==
    /\ []C9_IterationCount
    /\ InCall ~> Ended

C9_Witness ==
    /\ pc = "returned" /\ arg = 5 /\ iters = 4
    /\ Len(history) = 2 /\ history[1].n = 0 /\ history[2].n = 1

\* C10: while the pair is bound, 0 <= a <= b and b >= 1; no result is
\* negative; the results are non-decreasing in n, and strictly increasing
\* from n = 2 on.
C10_Monotone ==
    /\ PairBound =>
         /\ 0 <= locals.a
         /\ locals.a <= locals.b
         /\ locals.b >= 1
    /\ \A r \in Outcomes : Returned(r) => r.out.value >= 0
    /\ \A r, s \in Outcomes :
         (r.n >= 0 /\ s.n = r.n + 1 /\ Returned(r) /\ Returned(s)) =>
            /\ r.out.value <= s.out.value
            /\ r.n >= 2 => r.out.value < s.out.value

C10_Witness ==
    /\ pc = "returned" /\ arg = 3 /\ ret.value = 2
    /\ Len(history) = 2 /\ history[1].n = 1 /\ history[2].n = 2
    /\ history[1].out.value = history[2].out.value

====
